---- MODULE Spec2Model ----
(***************************************************************************)
(* A model of the Dodona judge for the compilers course:                   *)
(*   compile_error.py  handle_compile_error, the classifier of the build   *)
(*                     tool's standard error;                              *)
(*   judge.py          test_submission and the functions it calls, the     *)
(*                     walk over the evaluation folder that runs every     *)
(*                     fixture through lit and reports to Dodona.          *)
(* The classifier is checked under SpecCE, the walk under Spec.            *)
(***************************************************************************)
EXTENDS Integers, Sequences, FiniteSets, TLC

VARIABLES
    stderr_content,  \* handle_compile_error's argument: the lines of the text
    exit_code,       \* handle_compile_error's argument
    ce_pc,           \* "ready" before the call, "returned" after it
    report,          \* what handle_compile_error wrote to the reporting sink
    fs,              \* the evaluation folder: its directories and fixtures
    pc,              \* "start", "running", "done" (test_submission returned)
                     \* or "raised" (an exception left test_submission)
    stack,           \* the call stack of the walk, innermost frame last
    log,             \* the lit runs and what was written to the sink, in order
    result           \* the counter test_submission returned

ce_vars == <<stderr_content, exit_code, ce_pc, report>>

walk_vars == <<fs, pc, stack, log, result>>

vars == <<stderr_content, exit_code, ce_pc, report, fs, pc, stack, log, result>>

(***************************************************************************)
(* Bounds.                                                                 *)
(***************************************************************************)
MaxLines == 3

MaxDirs == 4

MaxFixtures == 2

(***************************************************************************)
(* Sequences.                                                              *)
(***************************************************************************)
Range(s) == {s[i] : i \in 1..Len(s)}

NoDup(s) == \A i, j \in 1..Len(s) : s[i] = s[j] => i = j

\* Every enumeration of a finite set: the orders a set or a glob may come in.
Perms(S) == {s \in [1..Cardinality(S) -> S] : Range(s) = S}

(***************************************************************************)
(* The reporting sink (dodona_command): entering a `with Node(...)` block  *)
(* writes the node's start, leaving it (by return or by an exception)      *)
(* writes its close together with the attributes set inside the block.     *)
(* `at` is not written: it records the folder or fixture the node stands   *)
(* for, so that properties can tell the nodes of a report apart.           *)
(***************************************************************************)
NoData == [none |-> TRUE]

Nowhere == <<>>

Start(kind, at, args) ==
    [op |-> "start", kind |-> kind, at |-> at, data |-> args]

Close(kind, at, attrs) ==
    [op |-> "close", kind |-> kind, at |-> at, data |-> attrs]

(***************************************************************************)
(* compile_error.py                                                        *)
(*                                                                         *)
(* The text is a sequence of lines.  A line is described by the features   *)
(* the two patterns read:                                                  *)
(*   pre   the line holds "/usr/bin/ld: "                                  *)
(*   ref   the line holds `<loc>: undefined reference to `sym'`, where     *)
(*         <loc> is "cpp" for a location of the shape                      *)
(*         \w+\.(h|cpp):\([\w\+\.]+\), and "c" for any other location      *)
(*         (another extension, a section name with brackets), "" when      *)
(*         the line holds no undefined reference                           *)
(*   err   the line holds `path:<line>:<column>: error: <message>`         *)
(*   line, column   the digit strings of such a line                       *)
(***************************************************************************)
NoDigits == <<>>

Ln(pre, ref, sym, err, line, column, message) ==
    [pre |-> pre, ref |-> ref, sym |-> sym, err |-> err,
     line |-> line, column |-> column, message |-> message]

Symbols == {"f", "g"}

\* "/usr/bin/ld: main.cpp.o: in function `main':"
LdHeaderLine == Ln(TRUE, "", "", FALSE, NoDigits, NoDigits, "")

\* "[/usr/bin/ld: ]main.cpp:(.text+0x5): undefined reference to `f'"
UndefLines ==
    {Ln(p, e, s, FALSE, NoDigits, NoDigits, "") :
        p \in BOOLEAN, e \in {"cpp", "c"}, s \in Symbols}

\* "main.cpp:12:5: error: expected ';'"
ErrorLines ==
    {Ln(FALSE, "", "", TRUE, <<1, 2>>, <<5>>, "m1"),
     Ln(FALSE, "", "", TRUE, <<7>>, <<0, 3>>, "m2")}

\* "collect2: error: ld returned 1 exit status"
OtherLine == Ln(FALSE, "", "", FALSE, NoDigits, NoDigits, "")

Lines == {LdHeaderLine, OtherLine} \cup UndefLines \cup ErrorLines

ExitCodes == {1, 2}

\* `\w+\.(?:h|cpp):\([\w\+\.]+\): undefined reference to `...'` at the start
\* of what is left of a line
IsLocatedRef(l) == l.ref = "cpp"

\* re.finditer(_is_undefined_reference, text): the missing_reference groups of
\* the non-overlapping matches, leftmost first.  A match starts at a
\* "/usr/bin/ld: "; the greedy `.*\n?` first runs to the end of the line and
\* over the newline, so that the reference is looked for at the start of the
\* next line, and only then backtracks to a reference on the line itself.
RECURSIVE FindUndefined(_, _)
FindUndefined(text, i) ==
    IF i > Len(text) THEN <<>>
    ELSE IF text[i].pre /\ i < Len(text)
              /\ ~text[i + 1].pre /\ IsLocatedRef(text[i + 1])
         THEN <<text[i + 1].sym>> \o FindUndefined(text, i + 2)
    ELSE IF text[i].pre /\ IsLocatedRef(text[i])
         THEN <<text[i].sym>> \o FindUndefined(text, i + 1)
    ELSE FindUndefined(text, i + 1)

undefined_references(text) == FindUndefined(text, 1)

\* re.search(_is_compile_error, text): the first line that matches, 0 if none
compile_error_match(text) ==
    IF \E i \in 1..Len(text) : text[i].err
    THEN CHOOSE i \in 1..Len(text) :
            text[i].err /\ \A j \in 1..(i - 1) : ~text[j].err
    ELSE 0

\* int(): the number a string of decimal digits denotes
RECURSIVE int(_)
int(ds) ==
    IF ds = <<>> THEN 0
    ELSE 10 * int(SubSeq(ds, 1, Len(ds) - 1)) + ds[Len(ds)]

\* set(m.group("missing_reference") for m in undefined_references)
missing_references(refs) == Range(refs)

\* "Could not find the following references:\n" + one ` * `ref`` item for
\* each element of the set, in the set's iteration order
UnresolvedReports(text) ==
    {<<Start("Message", Nowhere,
             [variant |-> "unresolved", items |-> order,
              format |-> "markdown", type |-> "error"]),
       Close("Message", Nowhere, NoData)>> :
        order \in Perms(missing_references(undefined_references(text)))}

\* Message(description=error_message, format=CODE) around
\* Annotation(row=int(line), text=error_message, type="error")
LocatedReport(l) ==
    <<Start("Message", Nowhere,
            [variant |-> "located", text |-> l.message, format |-> "code"]),
      Start("Annotation", Nowhere,
            [row |-> int(l.line), text |-> l.message, type |-> "error"]),
      Close("Annotation", Nowhere, NoData),
      Close("Message", Nowhere, NoData)>>

\* "Failed to build solution.\nCmake returned exit code **{exit_code}**.\n"
\* followed by the text, every line of it quoted with "> "
FallbackReport(text, code) ==
    <<Start("Message", Nowhere,
            [variant |-> "fallback", exit_code |-> code,
             quoted |-> [i \in 1..Len(text) |-> <<"> ", text[i]>>],
             format |-> "markdown", type |-> "error"]),
      Close("Message", Nowhere, NoData)>>

\* A variant that looks for the compiler's error before the linker's
\* references
reports_error_first(text, code) ==
    IF compile_error_match(text) # 0
    THEN {LocatedReport(text[compile_error_match(text)])}
    ELSE IF undefined_references(text) # <<>>
         THEN UnresolvedReports(text)
         ELSE {FallbackReport(text, code)}

\* What one call of handle_compile_error may write
handle_compile_error_reports(text, code) ==
    IF undefined_references(text) # <<>>
    THEN UnresolvedReports(text)
    ELSE IF compile_error_match(text) # 0
         THEN {LocatedReport(text[compile_error_match(text)])}
         ELSE {FallbackReport(text, code)}

handle_compile_error ==
    /\ ce_pc = "ready"
    /\ \E r \in handle_compile_error_reports(stderr_content, exit_code) :
          report' = r
    /\ ce_pc' = "returned"
    /\ UNCHANGED <<stderr_content, exit_code>>
    /\ UNCHANGED walk_vars


(***************************************************************************)
(* judge.py: the evaluation folder.                                        *)
(*                                                                         *)
(* A directory is the sequence of folder names that leads to it from the   *)
(* evaluation folder, <<>>.  fs.dirs is the set of directories, fs.files   *)
(* gives the number of .c fixtures each one holds directly.  A fixture is  *)
(* its directory and its number in it.                                     *)
(***************************************************************************)
TabNames == {"t", "u"}

Names == {"a", "hidden", "grading"}

Root == <<>>

Name(d) == d[Len(d)]

\* d itself, or a directory below it
IsUnder(p, d) == Len(p) >= Len(d) /\ SubSeq(p, 1, Len(d)) = d

\* [item for item in d.glob("*") if item.is_dir()], d.iterdir() with is_dir()
SubDirs(d) == {p \in fs.dirs : Len(p) = Len(d) + 1 /\ IsUnder(p, d)}

Fixture(d, n) == [dir |-> d, n |-> n]

\* d.glob("*.c")
GlobHere(d) == {Fixture(d, n) : n \in 1..fs.files[d]}

\* d.glob("**/*.c")
GlobAll(d) == UNION {GlobHere(q) : q \in {p \in fs.dirs : IsUnder(p, d)}}

\* d.glob("*/**/*.c")
GlobBelow(d) ==
    UNION {GlobHere(q) : q \in {p \in fs.dirs : IsUnder(p, d) /\ p # d}}

\* d.glob("grading/**/*.c")
GlobGrading(d) ==
    UNION {GlobHere(q) :
             q \in {p \in fs.dirs : IsUnder(p, Append(d, "grading"))}}

\* (d / "hidden").exists()
HasHidden(d) == Append(d, "hidden") \in fs.dirs

\* The trees of at most n directories
RECURSIVE Trees(_)
Trees(n) ==
    IF n = 0 THEN {{}}
    ELSE LET T == Trees(n - 1)
         IN  T \cup UNION {
               {S \cup {p} :
                  p \in ({<<t>> : t \in TabNames}
                         \cup {Append(q, nm) : q \in S, nm \in Names}) \ S}
               : S \in T}

RECURSIVE SumOver(_, _)
SumOver(f, D) ==
    IF D = {} THEN 0
    ELSE LET d == CHOOSE x \in D : TRUE
         IN  f[d] + SumOver(f, D \ {d})

\* The numbers of fixtures the directories of D may hold
FilesOf(D) == {f \in [D -> 0..MaxFixtures] : SumOver(f, D) <= MaxFixtures}

(***************************************************************************)
(* judge.py: counters, lit, and the frames of the walk.                    *)
(***************************************************************************)
Counter(c, t) == [correct |-> c, total |-> t]

Zero == Counter(0, 0)

Plus(a, b) == Counter(a.correct + b.correct, a.total + b.total)

\* folder_path_to_title: "_" and "-" become " ", the first letter a capital
folder_path_to_title(d) ==
    CASE Name(d) = "a" -> "A"
      [] Name(d) = "b" -> "B"
      [] Name(d) = "t" -> "T"
      [] Name(d) = "u" -> "U"
      [] Name(d) = "hidden" -> "Hidden"
      [] Name(d) = "grading" -> "Grading"

\* A frame: the function, its folder, its res so far, what its loop has left
Frame(fn, folder, todo, dummy) ==
    [fn |-> fn, folder |-> folder, res |-> Zero, todo |-> todo,
     dummy |-> dummy]

Call(fn, folder, dummy) == [call |-> fn, folder |-> folder, dummy |-> dummy]

Top == stack[Len(stack)]

Below == SubSeq(stack, 1, Len(stack) - 1)

\* The innermost frame with what its loop has left replaced
Advance(todo) == [stack EXCEPT ![Len(stack)].todo = todo]

\* Push a frame for the call at the head of the innermost frame's loop
Enter(frame) == Append(Advance(Tail(Top.todo)), frame)

\* Pop the innermost frame: `res += <its return value>` in its caller
Leave(value) ==
    [Below EXCEPT ![Len(stack) - 1].res = Plus(@, value)]

\* An exception leaves every open `with` block, innermost first
WithNode(fn) ==
    CASE fn = "create_tab" -> "Tab"
      [] fn = "create_context" -> "Context"
      [] fn = "run_test_case" -> "TestCase"
      [] OTHER -> ""

RECURSIVE Unwind(_)
Unwind(st) ==
    IF st = <<>> THEN <<>>
    ELSE LET f == st[Len(st)]
             rest == Unwind(SubSeq(st, 1, Len(st) - 1))
         IN  IF WithNode(f.fn) = "" THEN rest
             ELSE <<Close(WithNode(f.fn), f.folder, NoData)>> \o rest

Raise(events) ==
    /\ log' = log \o events \o Unwind(stack)
    /\ stack' = <<>>
    /\ pc' = "raised"
    /\ UNCHANGED <<fs, result>>

(***************************************************************************)
(* judge.py: one fixture.                                                  *)
(***************************************************************************)
None == "None"

\* bool(x) of a string or None
Truthy(x) == x # None /\ x # ""

\* What lit leaves behind for one fixture: its exit code and the first record
\* of its JSON output.  lit exits with 0 exactly when the test passed:
\* "PASS" -> is_correct == True, "TIMEOUT" or "FAIL" -> is_correct = False.
LitRun(returncode, code, elapsed) ==
    [returncode |-> returncode, code |-> code, elapsed |-> elapsed]

LitResults ==
    {LitRun(0, "PASS", "0.1"), LitRun(1, "FAIL", "0.1"),
     LitRun(1, "TIMEOUT", "2.5")}

\* lit wrote no record, or the fixture's output files are missing: reading
\* them raises
LitBroken == LitRun(1, "", "")


\* The dictionary _test_run_helper returns.  custom: the name ends in
\* ".custom.c"; exp_err, gen_err: the texts of <name>.stderr (empty when the
\* file is missing) and of the generated .tmp.stderr
test_run_helper(lit, custom, exp_err, gen_err) ==
    [correct          |-> (lit.returncode = 0),
     status           |-> lit.code,
     duration         |-> lit.elapsed,
     expected_output  |-> IF custom THEN None ELSE "expected.stdout",
     expected_error   |-> IF custom THEN None ELSE exp_err,
     generated_output |-> IF custom THEN None ELSE "generated.stdout",
     generated_error  |-> IF custom THEN None ELSE gen_err]

\* lit was run on the fixture by run_test or by run_hidden_tests, and
\* _test_run_helper returned d (or raised: Raised stands for no dictionary)
Ran(by, fixture, d) ==
    [op |-> "lit", kind |-> by, at |-> fixture, data |-> d]

Raised == test_run_helper(LitBroken, TRUE, "", "")

warn_unexpected_error(fixture, error_message) ==
    <<Start("Message", fixture,
            [variant |-> "unexpected_error", text |-> error_message]),
      Close("Message", fixture, NoData)>>

warn_timeout(fixture, duration) ==
    <<Start("Message", fixture,
            [variant |-> "timeout", text |-> duration]),
      Close("Message", fixture, NoData)>>

int_of_bool(b) == IF b THEN 1 ELSE 0

\* A variant of the Test node in which the timeout is looked at before the
\* unexpected error
TestLeafTimeoutFirst(fixture, d) ==
    LET expects_error == Truthy(d.expected_error)
        expected == IF expects_error THEN d.expected_error
                    ELSE d.expected_output
        generated == IF expects_error THEN d.generated_error
                     ELSE d.generated_output
        unexpected_error == ~expects_error /\ Truthy(d.generated_error)
        did_timeout == (d.status = "TIMEOUT")
    IN  <<Start("Test", fixture, [expected |-> expected])>>
        \o (IF did_timeout
            THEN warn_timeout(fixture, d.duration)
            ELSE IF unexpected_error
                 THEN warn_unexpected_error(fixture, d.generated_error)
                 ELSE <<>>)
        \o <<Close("Test", fixture,
                   [status |-> IF d.correct THEN "correct" ELSE "wrong",
                    generated |-> generated])>>

\* A variant of the Test node in which the warning is written after the
\* `with Test` block instead of inside it
TestLeafWarnAfter(fixture, d) ==
    LET expects_error == Truthy(d.expected_error)
        expected == IF expects_error THEN d.expected_error
                    ELSE d.expected_output
        generated == IF expects_error THEN d.generated_error
                     ELSE d.generated_output
        unexpected_error == ~expects_error /\ Truthy(d.generated_error)
        did_timeout == (d.status = "TIMEOUT")
    IN  <<Start("Test", fixture, [expected |-> expected]),
          Close("Test", fixture,
                [status |-> IF d.correct THEN "correct" ELSE "wrong",
                 generated |-> generated])>>
        \o (IF unexpected_error
            THEN warn_unexpected_error(fixture, d.generated_error)
            ELSE IF did_timeout
                 THEN warn_timeout(fixture, d.duration)
                 ELSE <<>>)

\* The Test node run_test writes for the dictionary d
TestLeaf(fixture, d) ==
    LET expects_error == Truthy(d.expected_error)
        expected == IF expects_error THEN d.expected_error
                    ELSE d.expected_output
        generated == IF expects_error THEN d.generated_error
                     ELSE d.generated_output
        unexpected_error == ~expects_error /\ Truthy(d.generated_error)
        did_timeout == (d.status = "TIMEOUT")
    IN  <<Start("Test", fixture, [expected |-> expected])>>
        \o (IF unexpected_error
            THEN warn_unexpected_error(fixture, d.generated_error)
            ELSE IF did_timeout
                 THEN warn_timeout(fixture, d.duration)
                 ELSE <<>>)
        \o <<Close("Test", fixture,
                   [status |-> IF d.correct THEN "correct" ELSE "wrong",
                    generated |-> generated])>>

\* A variant that counts a test as correct unless lit's record says FAIL
TestCounterUnlessFail(d) == Counter(int_of_bool(d.status # "FAIL"), 1)

\* Counter({"correct": int(is_correct), "total": 1})
TestCounter(d) == Counter(int_of_bool(d.correct), 1)

\* run_test, called by run_test_case's loop for the next fixture
run_test ==
    /\ pc = "running"
    /\ Top.fn = "run_test_case"
    /\ Top.todo # <<>>
    /\ LET fixture == Head(Top.todo)
       IN  \/ \E lit \in LitResults, custom \in BOOLEAN,
                 exp_err \in {"", "E"}, gen_err \in {"", "G"} :
                 LET d == test_run_helper(lit, custom, exp_err, gen_err)
                 IN  /\ log' = log \o <<Ran("run_test", fixture, d)>>
                                   \o TestLeaf(fixture, d)
                     /\ stack' = [stack EXCEPT
                                    ![Len(stack)].todo = Tail(@),
                                    ![Len(stack)].res = Plus(@, TestCounter(d))]
                     /\ UNCHANGED <<fs, pc, result>>
           \/ Raise(<<Ran("run_test", fixture, Raised)>>)
    /\ UNCHANGED ce_vars

(***************************************************************************)
(* judge.py: the hidden tests.                                             *)
(***************************************************************************)
Width == 20

\* success_bar: the numbers of filled and of empty cells
success_bar(num_success, num_total) ==
    LET bar_length == (num_success * Width) \div num_total
    IN  [filled |-> bar_length, empty |-> Width - bar_length]

\* run_hidden_tests is called by create_context
run_hidden_tests ==
    /\ pc = "running"
    /\ Top.fn = "create_context"
    /\ Top.todo # <<>>
    /\ Head(Top.todo).call = "run_hidden_tests"
    /\ \E order \in Perms(GlobAll(Head(Top.todo).folder)) :
          stack' = Enter(Frame("run_hidden_tests", Head(Top.todo).folder,
                               order, FALSE))
    /\ UNCHANGED <<fs, pc, log, result>>
    /\ UNCHANGED ce_vars

\* One turn of run_hidden_tests' loop: res holds num_success and num_tests
run_hidden_test ==
    /\ pc = "running"
    /\ Top.fn = "run_hidden_tests"
    /\ Top.todo # <<>>
    /\ LET fixture == Head(Top.todo)
       IN  \/ \E lit \in LitResults :
                 LET d == test_run_helper(lit, FALSE, "", "")
                 IN  /\ log' = log \o <<Ran("run_hidden_tests", fixture, d)>>
                     /\ stack' = [stack EXCEPT
                                    ![Len(stack)].todo = Tail(@),
                                    ![Len(stack)].res = Plus(@, TestCounter(d))]
                     /\ UNCHANGED <<fs, pc, result>>
           \/ Raise(<<Ran("run_hidden_tests", fixture, Raised)>>)
    /\ UNCHANGED ce_vars

\* After the loop: the summary node and the return
HiddenSummary(folder, num_success, num_tests) ==
    <<Start("TestCase", folder,
            [variant |-> "hidden",
             bar |-> success_bar(num_success, num_tests),
             correct |-> num_success, total |-> num_tests]),
      Close("TestCase", folder, [accepted |-> (num_success = num_tests)])>>

run_hidden_tests_return ==
    /\ pc = "running"
    /\ Top.fn = "run_hidden_tests"
    /\ Top.todo = <<>>
    /\ IF Top.res.total = 0
       THEN Raise(<<>>)   \* ZeroDivisionError in success_bar
       ELSE /\ log' = log \o HiddenSummary(Top.folder, Top.res.correct,
                                           Top.res.total)
            /\ stack' = Leave(Top.res)
            /\ UNCHANGED <<fs, pc, result>>
    /\ UNCHANGED ce_vars

(***************************************************************************)
(* judge.py: test cases, contexts, tabs.                                   *)
(***************************************************************************)
run_test_case ==
    /\ pc = "running"
    /\ Top.fn = "create_context"
    /\ Top.todo # <<>>
    /\ Head(Top.todo).call = "run_test_case"
    /\ LET folder == Head(Top.todo).folder
       IN  /\ \E order \in Perms(GlobHere(folder)) :
                 stack' = Enter(Frame("run_test_case", folder, order, FALSE))
           /\ log' = Append(log,
                       Start("TestCase", folder,
                             [variant |-> "group",
                              title |-> folder_path_to_title(folder)]))
    /\ UNCHANGED <<fs, pc, result>>
    /\ UNCHANGED ce_vars

run_test_case_return ==
    /\ pc = "running"
    /\ Top.fn = "run_test_case"
    /\ Top.todo = <<>>
    /\ log' = Append(log, Close("TestCase", Top.folder, NoData))
    /\ stack' = Leave(Top.res)
    /\ UNCHANGED <<fs, pc, result>>
    /\ UNCHANGED ce_vars

has_sub_folders(d) ==
    /\ GlobBelow(d) # {}
    /\ ~(\A f \in SubDirs(d) : Name(f) = "hidden")

IsVisible(d) == Name(d) \notin {"hidden", "grading"}

RunTestCase(d) == Call("run_test_case", d, FALSE)

\* A variant that runs the hidden tests where the listing has the hidden
\* folder, instead of after the loop
WorkFor(folder) ==
    IF Name(folder) = "hidden"
    THEN Call("run_hidden_tests", folder, FALSE)
    ELSE RunTestCase(folder)

IsNotGrading(d) == Name(d) # "grading"

ContextWorkInListingOrder(d, order) ==
    LET hidden == IF HasHidden(d)
                  THEN <<Call("run_hidden_tests", Append(d, "hidden"), FALSE)>>
                  ELSE <<>>
        listed == SelectSeq(order, IsNotGrading)
    IN  IF ~has_sub_folders(d)
        THEN <<RunTestCase(d)>> \o hidden
        ELSE [i \in 1..Len(listed) |-> WorkFor(listed[i])]

\* What create_context does inside its Context node, for the order in which
\* glob("*") lists the subfolders
ContextWork(d, order) ==
    LET hidden == IF HasHidden(d)
                  THEN <<Call("run_hidden_tests", Append(d, "hidden"), FALSE)>>
                  ELSE <<>>
        visible == SelectSeq(order, IsVisible)
    IN  IF ~has_sub_folders(d)
        THEN <<RunTestCase(d)>> \o hidden
        ELSE [i \in 1..Len(visible) |-> RunTestCase(visible[i])] \o hidden

create_context ==
    /\ pc = "running"
    /\ Top.fn = "create_tab"
    /\ Top.todo # <<>>
    /\ LET folder == Head(Top.todo).folder
           is_dummy == Head(Top.todo).dummy
       IN  /\ \E order \in Perms(SubDirs(folder)) :
                 stack' = Enter(Frame("create_context", folder,
                                      ContextWork(folder, order), is_dummy))
           /\ log' = Append(log,
                       Start("Context", folder,
                             IF is_dummy THEN NoData
                             ELSE [title |-> folder_path_to_title(folder)]))
    /\ UNCHANGED <<fs, pc, result>>
    /\ UNCHANGED ce_vars

create_context_return ==
    /\ pc = "running"
    /\ Top.fn = "create_context"
    /\ Top.todo = <<>>
    /\ log' = Append(log, Close("Context", Top.folder, NoData))
    /\ stack' = Leave(Top.res)
    /\ UNCHANGED <<fs, pc, result>>
    /\ UNCHANGED ce_vars

\* A variant that compares with glob("grading/*.c"), the fixtures directly
\* in grading/
is_grading_only_direct(d) ==
    GlobAll(d) = {x \in GlobGrading(d) : x.dir = Append(d, "grading")}

is_grading_only(d) == GlobAll(d) = GlobGrading(d)

has_sub_rubrics(d) ==
    /\ GlobBelow(d) # {}
    /\ ~(\A f \in SubDirs(d) : Name(f) \in {"hidden", "grading"})

\* What create_tab does inside its Tab node
TabWork(d, order) ==
    IF ~has_sub_rubrics(d)
    THEN <<Call("create_context", d, TRUE)>>
    ELSE [i \in 1..Len(order) |-> Call("create_context", order[i], FALSE)]

\* create_tab, called by test_submission's loop for the next rubric folder
create_tab ==
    /\ pc = "running"
    /\ Top.fn = "test_submission"
    /\ Top.todo # <<>>
    /\ LET folder == Head(Top.todo)
       IN  IF is_grading_only(folder)
           THEN /\ stack' = Advance(Tail(Top.todo))
                /\ log' = log
           ELSE /\ \E order \in Perms(SubDirs(folder)) :
                      stack' = Enter(Frame("create_tab", folder,
                                           TabWork(folder, order), FALSE))
                /\ log' = Append(log,
                            Start("Tab", folder,
                                  [title |-> folder_path_to_title(folder)]))
    /\ UNCHANGED <<fs, pc, result>>
    /\ UNCHANGED ce_vars

create_tab_return ==
    /\ pc = "running"
    /\ Top.fn = "create_tab"
    /\ Top.todo = <<>>
    /\ log' = Append(log,
                Close("Tab", Top.folder,
                      [badgeCount |-> Top.res.total - Top.res.correct]))
    /\ stack' = Leave(Top.res)
    /\ UNCHANGED <<fs, pc, result>>
    /\ UNCHANGED ce_vars

test_submission ==
    /\ pc = "start"
    /\ \E order \in Perms(SubDirs(Root)) :
          stack' = <<Frame("test_submission", Root, order, FALSE)>>
    /\ pc' = "running"
    /\ UNCHANGED <<fs, log, result>>
    /\ UNCHANGED ce_vars

test_submission_return ==
    /\ pc = "running"
    /\ Top.fn = "test_submission"
    /\ Top.todo = <<>>
    /\ result' = Top.res
    /\ stack' = <<>>
    /\ pc' = "done"
    /\ UNCHANGED <<fs, log>>
    /\ UNCHANGED ce_vars

(***************************************************************************)
(* The two specifications.                                                 *)
(***************************************************************************)
CEIdle ==
    /\ stderr_content = <<>>
    /\ exit_code = 0
    /\ ce_pc = "idle"
    /\ report = <<>>

WalkIdle ==
    /\ fs = [dirs |-> {}, files |-> <<>>]
    /\ pc = "idle"
    /\ stack = <<>>
    /\ log = <<>>
    /\ result = Zero

CEInit ==
    /\ \E n \in 0..MaxLines : stderr_content \in [1..n -> Lines]
    /\ exit_code \in ExitCodes
    /\ ce_pc = "ready"
    /\ report = <<>>
    /\ WalkIdle

Init ==
    /\ \E D \in Trees(MaxDirs) :
          \E f \in FilesOf(D) : fs = [dirs |-> D, files |-> f]
    /\ pc = "start"
    /\ stack = <<>>
    /\ log = <<>>
    /\ result = Zero
    /\ CEIdle

Next ==
    \/ test_submission
    \/ create_tab
    \/ create_context
    \/ run_test_case
    \/ run_test
    \/ run_test_case_return
    \/ run_hidden_tests
    \/ run_hidden_test
    \/ run_hidden_tests_return
    \/ create_context_return
    \/ create_tab_return
    \/ test_submission_return

SpecCE == CEInit /\ [][handle_compile_error]_vars

Spec == Init /\ [][Next]_vars

(***************************************************************************)
(* Properties of handle_compile_error, checked under SpecCE.               *)
(***************************************************************************)
\* The references ld reports in the text.  ld starts every message with
\* "/usr/bin/ld: "; the location and the reference follow on the same line,
\* or on the next line when the message first names the function.
LinkerReferenceAt(text, j) ==
    /\ IsLocatedRef(text[j])
    /\ \/ ~text[j].pre /\ j > 1 /\ text[j - 1].pre
       \/ /\ text[j].pre
          /\ ~(j < Len(text) /\ ~text[j + 1].pre /\ IsLocatedRef(text[j + 1]))

LinkerReferences(text) ==
    {text[j].sym : j \in {k \in 1..Len(text) : LinkerReferenceAt(text, k)}}

\* The text holds a linker "undefined reference" line
HasLinkerReference(text) ==
    \E j \in 1..Len(text) :
        /\ IsLocatedRef(text[j])
        /\ text[j].pre \/ (j > 1 /\ text[j - 1].pre)

HasErrorLine(text) == \E j \in 1..Len(text) : text[j].err

Starts(l, kind) ==
    {i \in 1..Len(l) : l[i].op = "start" /\ l[i].kind = kind}

C2_LocatedLineAndColumn ==
    (/\ ce_pc = "returned"
     /\ undefined_references(stderr_content) = <<>>
     /\ HasErrorLine(stderr_content)) =>
        LET l == stderr_content[compile_error_match(stderr_content)]
        IN  \E i \in Starts(report, "Annotation") :
               /\ report[i].data.row = int(l.line)
               /\ "column" \in DOMAIN report[i].data
               /\ report[i].data.column = int(l.column)
               /\ report[i].data.text = l.message

(***************************************************************************)
(* Properties of the walk, checked under Spec.                             *)
(***************************************************************************)
Lits(by) == {i \in 1..Len(log) : log[i].op = "lit" /\ log[i].kind = by}

AllLits == Lits("run_test") \cup Lits("run_hidden_tests")

IsHiddenEvent(e) ==
    \/ e.op = "lit" /\ e.kind = "run_hidden_tests"
    \/ e.op = "start" /\ e.kind = "TestCase" /\ e.data.variant = "hidden"

IsVisibleEvent(e) ==
    \/ e.op = "lit" /\ e.kind = "run_test"
    \/ e.op = "start" /\ e.kind = "Test"
    \/ e.op = "start" /\ e.kind = "TestCase" /\ e.data.variant = "group"

IsContextStart(e) == e.op = "start" /\ e.kind = "Context"

IsContextClose(e) == e.op = "close" /\ e.kind = "Context"

\* The place in the log where the context around place i starts
ContextStartOf(i) ==
    CHOOSE k \in 1..i :
        /\ IsContextStart(log[k])
        /\ \A m \in (k + 1)..i : ~IsContextStart(log[m])

\* C3: in a sub-rubric folder with a hidden subfolder, whatever the order
\* in which the subfolders are listed, the hidden fixtures are run and the
\* hidden summary is written only after every sibling visible test-case
\* group has been run and its TestCase node closed, and nothing visible is
\* run or reported after them in that sub-rubric.
C3_HiddenLast ==
    \A i \in 1..Len(log) :
        IsHiddenEvent(log[i]) =>
            LET k == ContextStartOf(i)
                d == log[k].at
            IN  /\ \A g \in SubDirs(d) :
                      (IsVisible(g) /\ GlobHere(g) # {}) =>
                          /\ \E j \in (k + 1)..(i - 1) :
                                log[j] = Close("TestCase", g, NoData)
                          /\ \A x \in GlobHere(g) :
                                \E j \in (k + 1)..(i - 1) :
                                   /\ j \in Lits("run_test")
                                   /\ log[j].at = x
                /\ \A j \in (i + 1)..Len(log) :
                      IsVisibleEvent(log[j]) =>
                          \E m \in (i + 1)..(j - 1) : IsContextClose(log[m])

\* C3's case: a sub-rubric that lists its subfolders, with a visible group
\* that ran a fixture and a hidden folder that ran one
C3_Witness ==
    /\ pc = "done"
    /\ \E i \in Lits("run_hidden_tests") :
          LET k == ContextStartOf(i)
          IN  /\ has_sub_folders(log[k].at)
              /\ \E j \in (k + 1)..(i - 1) : j \in Lits("run_test")

InHidden(d) == \E k \in 1..Len(d) : d[k] = "hidden"

InGrading(d) == \E k \in 1..Len(d) : d[k] = "grading"

\* C4: the fixtures under a folder named hidden are never run by run_test
\* nor reported as a Test leaf, and a folder named hidden is never rendered
\* as a named sub-rubric or as a test-case group.
C4_HiddenNeverExpanded ==
    \A i \in 1..Len(log) :
        /\ (i \in Lits("run_test")) => ~InHidden(log[i].at.dir)
        /\ (i \in Starts(log, "Test")) => ~InHidden(log[i].at.dir)
        /\ (i \in Starts(log, "Context") /\ log[i].data # NoData) =>
               Name(log[i].at) # "hidden"
        /\ (i \in Starts(log, "TestCase") /\ log[i].data.variant = "group") =>
               Name(log[i].at) # "hidden"

\* Where an event belongs: the folder of a node, the folder of a fixture
FolderOf(e) == IF e.kind \in {"Tab", "Context", "TestCase"} THEN e.at
               ELSE e.at.dir

\* C5: a rubric folder whose .c fixtures all lie under its grading/
\* subfolder opens no node and runs no fixture, and adds nothing to the
\* count: the counter returned counts the fixtures that were run, none of
\* them its.
C5_GradingOnlySkipped ==
    /\ \A tab \in SubDirs(Root) :
          (GlobAll(tab) \subseteq GlobGrading(tab)) =>
              \A i \in 1..Len(log) : ~IsUnder(FolderOf(log[i]), tab)
    /\ pc = "done" =>
          /\ result.total = Cardinality(AllLits)
          /\ result.correct =
                Cardinality({i \in AllLits : log[i].data.correct})

\* C5's case: the walk is over, one rubric had fixtures under grading/
\* only, another one was reported
C5_Witness ==
    /\ pc = "done"
    /\ \E tab \in SubDirs(Root) :
          GlobAll(tab) # {} /\ GlobAll(tab) \subseteq GlobGrading(tab)
    /\ Starts(log, "Tab") # {}

IsWarning(e, fixture, variant) ==
    /\ e.op = "start" /\ e.kind = "Message"
    /\ e.at = fixture
    /\ e.data.variant = variant

UnexpectedError(d) ==
    ~Truthy(d.expected_error) /\ Truthy(d.generated_error)

RanIn(folder) == {i \in Lits("run_test") : log[i].at.dir = folder}

\* C7: a fixture for which lit reports TIMEOUT is counted as incorrect:
\* its leaf is marked wrong, it adds 1 to the total and nothing to the
\* correct count of its group, and the other fixtures of the group are
\* still run.
C7_TimeoutIncorrect ==
    /\ \A i \in Lits("run_test") :
          log[i].data.status = "TIMEOUT" =>
              \E j \in (i + 1)..Len(log) :
                 /\ log[j].op = "close" /\ log[j].kind = "Test"
                 /\ log[j].at = log[i].at
                 /\ log[j].data.status = "wrong"
    /\ (pc = "running" /\ Top.fn = "run_test_case") =>
          /\ Top.res.total = Cardinality(RanIn(Top.folder))
          /\ Top.res.correct <=
                Cardinality({i \in RanIn(Top.folder) :
                                log[i].data.status # "TIMEOUT"})
    /\ pc = "done" =>
          \A i \in Lits("run_test") :
              \A x \in GlobHere(log[i].at.dir) :
                  \E j \in Lits("run_test") : log[j].at = x

\* C7's case: the first fixture of a group timed out, the second one was
\* run after it and passed
C7_Witness ==
    /\ pc = "done"
    /\ \E i, j \in Lits("run_test") :
          /\ i < j
          /\ log[i].at.dir = log[j].at.dir
          /\ log[i].data.status = "TIMEOUT"
          /\ log[j].data.correct

\* The node kind each kind of node is opened in
Encloser(kind) ==
    CASE kind = "Tab" -> ""
      [] kind = "Context" -> "Tab"
      [] kind = "TestCase" -> "Context"
      [] kind = "Test" -> "TestCase"
      [] kind = "Message" -> "Test"
      [] OTHER -> "?"

\* Reading a sequence of events: the nodes left open, outermost first, and
\* whether every start so far was inside the right kind of node and every
\* close closed the innermost open node
RECURSIVE OpenNodes(_)
OpenNodes(l) ==
    IF l = <<>> THEN [ok |-> TRUE, open |-> <<>>]
    ELSE LET before == OpenNodes(SubSeq(l, 1, Len(l) - 1))
             open == before.open
             e == l[Len(l)]
             inner == IF open = <<>> THEN "" ELSE open[Len(open)].kind
         IN  IF ~before.ok THEN before
             ELSE IF e.op = "start"
                  THEN [ok |-> Encloser(e.kind) = inner,
                        open |-> Append(open, [kind |-> e.kind, at |-> e.at])]
             ELSE IF e.op = "close"
                  THEN IF inner = e.kind
                       THEN [ok |-> open[Len(open)].at = e.at,
                             open |-> SubSeq(open, 1, Len(open) - 1)]
                       ELSE [ok |-> FALSE, open |-> open]
             ELSE before

\* C8: the nodes written are well nested, Tab > Context > TestCase > Test >
\* Message: a node is closed after the nodes opened inside it, and when
\* test_submission is over, by return or by an exception, none is open.
C8_WellNested ==
    /\ OpenNodes(log).ok
    /\ pc \in {"done", "raised"} => OpenNodes(log).open = <<>>

\* C8's case: a test with a warning was reported, then running a fixture
\* raised inside a TestCase node, and the walk ended
C8_Witness ==
    /\ pc = "raised"
    /\ Starts(log, "Message") # {}
    /\ \E i \in Lits("run_test") : log[i].data = Raised

\* C9: for a hidden folder with n >= 0 fixtures, run_hidden_tests writes no
\* Test leaf and, after the last fixture, exactly one summary TestCase whose
\* bar has 20 cells, floor(correct * 20 / total) of them filled, which is
\* accepted iff correct = total, and returns {correct, total} with total = n.
C9_HiddenSummary ==
    [][(pc = "running" /\ Top.fn = "run_hidden_tests") =>
          IF Top.todo # <<>>
          THEN \A k \in (Len(log) + 1)..Len(log') : log'[k].kind # "Test"
          ELSE LET n == Cardinality(GlobAll(Top.folder))
                   c == Cardinality(
                          {x \in GlobAll(Top.folder) :
                             \E i \in Lits("run_hidden_tests") :
                                log[i].at = x /\ log[i].data.correct})
                   s == log'[Len(log) + 1]
               IN  /\ pc' = "running"
                   /\ Len(log') = Len(log) + 2
                   /\ s.op = "start" /\ s.kind = "TestCase"
                   /\ s.data.bar.filled + s.data.bar.empty = 20
                   /\ n > 0 => s.data.bar.filled = (c * 20) \div n
                   /\ log'[Len(log) + 2].op = "close"
                   /\ log'[Len(log) + 2].data.accepted = (c = n)
                   /\ stack' = Leave(Counter(c, n))
      ]_vars

AllFixtures == UNION {GlobHere(d) : d \in fs.dirs}

\* C10: when test_submission returns, every fixture that is not under a
\* folder named grading was run exactly once, no fixture under a grading
\* folder was run, and the counter returned has total = the number of
\* fixtures not under grading and 0 <= correct <= total.
C10_EveryFixtureOnce ==
    pc = "done" =>
        /\ \A x \in AllFixtures :
              Cardinality({i \in AllLits : log[i].at = x})
                 = IF InGrading(x.dir) THEN 0 ELSE 1
        /\ result.total =
              Cardinality({x \in AllFixtures : ~InGrading(x.dir)})
        /\ 0 <= result.correct /\ result.correct <= result.total

====
